---- MODULE Spec2Model ----
(***************************************************************************)
(* A model of the 2D physics engine of src/assets/ts/physicsEng.ts:        *)
(* Vector2D, the Circle and Box bodies, and PhysicsWorld with its frame    *)
(* callback, boundary resolution, pairwise circle collisions and mutation  *)
(* API.                                                                    *)
(*                                                                         *)
(* Numbers.  The program computes in IEEE doubles.  The model computes in  *)
(* exact rational arithmetic: a number is a pair <<n, d>> in lowest terms  *)
(* with d > 0.  The statements checked here about motion and collisions    *)
(* are therefore statements of the program's arithmetic before rounding.   *)
(* The randomized sizes of a spawn are rounded as the program rounds them, *)
(* to nearest with ties to even, in a binary format of MantissaBits        *)
(* significant bits (a double has 53): whether a size can reach the end of *)
(* its range is decided by that rounding.                                  *)
(***************************************************************************)
EXTENDS Integers, Sequences, FiniteSets, TLC

(***************************************************************************)
(* Rational arithmetic                                                     *)
(***************************************************************************)
Abs(n) == IF n < 0 THEN -n ELSE n

RECURSIVE GCD(_, _)
GCD(a, b) == IF b = 0 THEN a ELSE GCD(b, a % b)

\* n/d in lowest terms, d # 0
Rat(n, d) ==
    LET g == GCD(Abs(n), Abs(d))
        s == IF d < 0 THEN -1 ELSE 1
    IN  <<(s * n) \div g, (s * d) \div g>>

Num(n) == <<n, 1>>
Zero == <<0, 1>>
One == <<1, 1>>

RNeg(a) == <<-a[1], a[2]>>

RAdd(a, b) ==
    LET g == GCD(a[2], b[2])
    IN  Rat(a[1] * (b[2] \div g) + b[1] * (a[2] \div g), (a[2] \div g) * b[2])

RSub(a, b) == RAdd(a, RNeg(b))

RMul(a, b) ==
    LET g1 == GCD(Abs(a[1]), b[2])
        g2 == GCD(Abs(b[1]), a[2])
    IN  <<(a[1] \div g1) * (b[1] \div g2), (a[2] \div g2) * (b[2] \div g1)>>

\* 1/a, a # 0
RInv(a) == IF a[1] < 0 THEN <<-a[2], -a[1]>> ELSE <<a[2], a[1]>>

RDiv(a, b) == RMul(a, RInv(b))

RLt(a, b) ==
    LET g == GCD(a[2], b[2])
    IN  a[1] * (b[2] \div g) < b[1] * (a[2] \div g)

RLe(a, b) == a = b \/ RLt(a, b)

RAbs(a) == <<Abs(a[1]), a[2]>>

RMin(a, b) == IF RLt(b, a) THEN b ELSE a

\* floor of the square root of a natural number, by bisection on lo..hi
RECURSIVE ISqrtIn(_, _, _)
ISqrtIn(n, lo, hi) ==
    IF lo >= hi THEN lo
    ELSE LET mid == (lo + hi + 1) \div 2
         IN  IF mid * mid <= n THEN ISqrtIn(n, mid, hi)
                               ELSE ISqrtIn(n, lo, mid - 1)

ISqrt(n) == ISqrtIn(n, 0, IF n < 46340 THEN n ELSE 46340)

IsSquare(n) == ISqrt(n) * ISqrt(n) = n

\* Math.sqrt of a rational a >= 0: exact when a is the square of a rational,
\* and otherwise rounded down to the grid of 1/d
RSqrt(a) ==
    IF IsSquare(a[1]) /\ IsSquare(a[2])
    THEN <<ISqrt(a[1]), ISqrt(a[2])>>
    ELSE Rat(ISqrt(a[1] * a[2]), a[2])

\* 2^e as a rational, for any integer e
Pow2(e) == IF e >= 0 THEN Num(2 ^ e) ELSE Rat(1, 2 ^ (0 - e))

\* the e with 2^e <= a < 2^(e+1), for a rational a > 0
RECURSIVE FloorLog2(_)
FloorLog2(a) ==
    IF ~RLt(a, Num(2)) THEN FloorLog2(RDiv(a, Num(2))) + 1
    ELSE IF RLt(a, One) THEN FloorLog2(RMul(a, Num(2))) - 1
    ELSE 0

\* the result of a floating-point operation whose exact result is a >= 0:
\* the nearest number with bits significant bits, the one of even
\* significand when two are equally near
RoundTo(bits, a) ==
    IF a = Zero THEN Zero
    ELSE LET ulp == Pow2(FloorLog2(a) - bits + 1)
             q == RDiv(a, ulp)
             m == q[1] \div q[2]
             twice == RMul(RSub(q, Num(m)), Num(2))
             up == RLt(One, twice) \/ (twice = One /\ m % 2 = 1)
         IN  RMul(Num(IF up THEN m + 1 ELSE m), ulp)

(***************************************************************************)
(* Vector2D                                                                *)
(***************************************************************************)
Vector2D(x, y) == [x |-> x, y |-> y]

ZeroVector == Vector2D(Zero, Zero)

add(u, v) == Vector2D(RAdd(u.x, v.x), RAdd(u.y, v.y))

subtract(u, v) == Vector2D(RSub(u.x, v.x), RSub(u.y, v.y))

multiply(u, scalar) == Vector2D(RMul(u.x, scalar), RMul(u.y, scalar))

\* sqrt(x*x + y*y); with a zero component the square root of the remaining
\* square is taken without forming the square
magnitude(u) ==
    IF u.x = Zero THEN RAbs(u.y)
    ELSE IF u.y = Zero THEN RAbs(u.x)
    ELSE RSqrt(RAdd(RMul(u.x, u.x), RMul(u.y, u.y)))

\* a normalize that answers the unit vector of x for the zero vector
normalize_ZeroToUnitX(u) ==
    LET mag == magnitude(u)
    IN  IF mag = Zero THEN Vector2D(One, Zero)
        ELSE Vector2D(RDiv(u.x, mag), RDiv(u.y, mag))

normalize(u) ==
    LET mag == magnitude(u)
    IN  IF mag = Zero THEN ZeroVector
        ELSE Vector2D(RDiv(u.x, mag), RDiv(u.y, mag))

dot(u, v) == RAdd(RMul(u.x, v.x), RMul(u.y, v.y))

(***************************************************************************)
(* Bodies: Circle and Box                                                  *)
(***************************************************************************)
DefaultElasticity == Rat(7, 10)
DefaultFriction == Rat(1, 10)

\* new Circle({position, radius, mass}): the other parameters take their defaults
Circle(position, radius, mass) ==
    [kind |-> "circle", position |-> position, velocity |-> ZeroVector,
     acceleration |-> ZeroVector, radius |-> radius, mass |-> mass,
     elasticity |-> DefaultElasticity, friction |-> DefaultFriction]

\* new Box({position, width, height, mass})
Box(position, width, height, mass) ==
    [kind |-> "box", position |-> position, velocity |-> ZeroVector,
     acceleration |-> ZeroVector, width |-> width, height |-> height,
     mass |-> mass, elasticity |-> DefaultElasticity,
     friction |-> DefaultFriction, rotation |-> Zero, angularVelocity |-> Zero]

\* applyForce adding the force itself to the acceleration
applyForce_Undivided(obj, force) ==
    [obj EXCEPT !.acceleration = add(obj.acceleration, force)]

\* Circle.applyForce and Box.applyForce: acceleration += force * (1 / mass)
applyForce(obj, force) ==
    LET acceleration == multiply(force, RDiv(One, obj.mass))
    IN  [obj EXCEPT !.acceleration = add(obj.acceleration, acceleration)]

\* Circle.update without the reset of the acceleration
CircleUpdate_KeepAcceleration(obj, dt) ==
    LET velocity == add(obj.velocity, multiply(obj.acceleration, dt))
    IN  [obj EXCEPT !.velocity = velocity,
                    !.position = add(obj.position, multiply(velocity, dt))]

\* Circle.update
CircleUpdate(obj, dt) ==
    LET velocity == add(obj.velocity, multiply(obj.acceleration, dt))
    IN  [obj EXCEPT !.velocity = velocity,
                    !.position = add(obj.position, multiply(velocity, dt)),
                    !.acceleration = ZeroVector]

\* Box.update
BoxUpdate(obj, dt) ==
    LET velocity == add(obj.velocity, multiply(obj.acceleration, dt))
    IN  [obj EXCEPT !.velocity = velocity,
                    !.position = add(obj.position, multiply(velocity, dt)),
                    !.rotation = RAdd(obj.rotation, RMul(obj.angularVelocity, dt)),
                    !.acceleration = ZeroVector]

\* obj.update(dt), dispatched on the class of obj
update(obj, dt) ==
    IF obj.kind = "circle" THEN CircleUpdate(obj, dt) ELSE BoxUpdate(obj, dt)

\* the descriptor obj.draw(ctx) puts on the canvas (the colour is left out)
draw(obj) ==
    IF obj.kind = "circle"
    THEN [kind |-> "circle", position |-> obj.position, radius |-> obj.radius]
    ELSE [kind |-> "box", position |-> obj.position, width |-> obj.width,
          height |-> obj.height, rotation |-> obj.rotation]

(***************************************************************************)
(* PhysicsWorld.checkBoundaries: four independent tests, in the order      *)
(* bottom, top, right, left, each on the body as the previous left it      *)
(***************************************************************************)
AngularDecay == Rat(8, 10)

\* the half extents (radius for a Circle; width/2, height/2 for a Box)
ExtentX(obj) == IF obj.kind = "circle" THEN obj.radius ELSE RDiv(obj.width, Num(2))
ExtentY(obj) == IF obj.kind = "circle" THEN obj.radius ELSE RDiv(obj.height, Num(2))

\* the bottom wall reflecting the velocity without the restitution factor
BottomWall_NoRestitution(obj, canvas) ==
    IF RLt(Num(canvas.height), RAdd(obj.position.y, ExtentY(obj)))
    THEN [obj EXCEPT
             !.position = Vector2D(obj.position.x,
                                   RSub(Num(canvas.height), ExtentY(obj))),
             !.velocity = Vector2D(RMul(obj.velocity.x, RSub(One, obj.friction)),
                                   RNeg(obj.velocity.y))]
    ELSE obj

BottomWall(obj, canvas) ==
    IF RLt(Num(canvas.height), RAdd(obj.position.y, ExtentY(obj)))
    THEN LET hit == [obj EXCEPT
                 !.position = Vector2D(obj.position.x,
                                       RSub(Num(canvas.height), ExtentY(obj))),
                 !.velocity = Vector2D(RMul(obj.velocity.x, RSub(One, obj.friction)),
                                       RMul(RNeg(obj.velocity.y), obj.elasticity))]
         IN  IF obj.kind = "box"
             THEN [hit EXCEPT !.angularVelocity = RMul(obj.angularVelocity, AngularDecay)]
             ELSE hit
    ELSE obj

\* a top wall that drags like the ground: it also scales the horizontal velocity
TopWall_WithFriction(obj, canvas) ==
    IF RLt(RSub(obj.position.y, ExtentY(obj)), Zero)
    THEN [obj EXCEPT
             !.position = Vector2D(obj.position.x, ExtentY(obj)),
             !.velocity = Vector2D(RMul(obj.velocity.x, RSub(One, obj.friction)),
                                   RMul(RNeg(obj.velocity.y), obj.elasticity))]
    ELSE obj

TopWall(obj, canvas) ==
    IF RLt(RSub(obj.position.y, ExtentY(obj)), Zero)
    THEN [obj EXCEPT
             !.position = Vector2D(obj.position.x, ExtentY(obj)),
             !.velocity = Vector2D(obj.velocity.x,
                                   RMul(RNeg(obj.velocity.y), obj.elasticity))]
    ELSE obj

\* a right wall that turns the body around where it is, without the clamp
RightWall_NoClamp(obj, canvas) ==
    IF RLt(Num(canvas.width), RAdd(obj.position.x, ExtentX(obj)))
    THEN [obj EXCEPT
             !.velocity = Vector2D(RMul(RNeg(obj.velocity.x), obj.elasticity),
                                   obj.velocity.y)]
    ELSE obj

RightWall(obj, canvas) ==
    IF RLt(Num(canvas.width), RAdd(obj.position.x, ExtentX(obj)))
    THEN [obj EXCEPT
             !.position = Vector2D(RSub(Num(canvas.width), ExtentX(obj)),
                                   obj.position.y),
             !.velocity = Vector2D(RMul(RNeg(obj.velocity.x), obj.elasticity),
                                   obj.velocity.y)]
    ELSE obj

\* a left wall that clamps the body and leaves its velocity as it is
LeftWall_NoReflect(obj, canvas) ==
    IF RLt(RSub(obj.position.x, ExtentX(obj)), Zero)
    THEN [obj EXCEPT !.position = Vector2D(ExtentX(obj), obj.position.y)]
    ELSE obj

LeftWall(obj, canvas) ==
    IF RLt(RSub(obj.position.x, ExtentX(obj)), Zero)
    THEN [obj EXCEPT
             !.position = Vector2D(ExtentX(obj), obj.position.y),
             !.velocity = Vector2D(RMul(RNeg(obj.velocity.x), obj.elasticity),
                                   obj.velocity.y)]
    ELSE obj

checkBoundaries(obj, canvas) ==
    LeftWall(RightWall(TopWall(BottomWall(obj, canvas), canvas), canvas), canvas)

(***************************************************************************)
(* PhysicsWorld.handleCircleToCircleCollision on the pair <<circleA,       *)
(* circleB>>; the result is the pair after resolution                      *)
(***************************************************************************)
CorrectionPercent == Rat(8, 10)

\* the restitution of the bouncier of the two circles
Restitution_Max(circleA, circleB) ==
    IF RLt(circleA.elasticity, circleB.elasticity)
    THEN circleB.elasticity ELSE circleA.elasticity

\* const e = Math.min(circleA.elasticity, circleB.elasticity)
Restitution(circleA, circleB) == RMin(circleA.elasticity, circleB.elasticity)

\* 1/circleA.mass + 1/circleB.mass
TotalInverseMass(circleA, circleB) ==
    RAdd(RDiv(One, circleA.mass), RDiv(One, circleB.mass))

\* the impulse without the division by the sum of the inverse masses
ImpulseScalar_Undivided(e, velocityAlongNormal, totalInverseMass) ==
    RMul(RNeg(RAdd(One, e)), velocityAlongNormal)

\* let j = -(1 + e) * velocityAlongNormal; j /= 1/circleA.mass + 1/circleB.mass
ImpulseScalar(e, velocityAlongNormal, totalInverseMass) ==
    RDiv(RMul(RNeg(RAdd(One, e)), velocityAlongNormal), totalInverseMass)

\* the correction with the sign of the penetration depth reversed
Correction_Inward(normal, minDistance, distance) ==
    multiply(normal, RMul(RSub(distance, minDistance), CorrectionPercent))

\* normal.multiply((minDistance - distance) * correctionPercent)
Correction(normal, minDistance, distance) ==
    multiply(normal, RMul(RSub(minDistance, distance), CorrectionPercent))

\* the collision normal and the relative velocity along it
Normal(circleA, circleB) == normalize(subtract(circleA.position, circleB.position))

VelocityAlongNormal(circleA, circleB) ==
    dot(subtract(circleA.velocity, circleB.velocity), Normal(circleA, circleB))

Distance(circleA, circleB) == magnitude(subtract(circleA.position, circleB.position))

MinDistance(circleA, circleB) == RAdd(circleA.radius, circleB.radius)

\* the resolution giving circleB the velocity change of circleA, reversed:
\* the impulse divided by the mass of circleA for both circles
handleCircleToCircleCollision_OneMass(circleA, circleB) ==
    LET distance == Distance(circleA, circleB)
        minDistance == MinDistance(circleA, circleB)
        normal == Normal(circleA, circleB)
        velocityAlongNormal == VelocityAlongNormal(circleA, circleB)
        e == Restitution(circleA, circleB)
        totalInverseMass == TotalInverseMass(circleA, circleB)
        j == ImpulseScalar(e, velocityAlongNormal, totalInverseMass)
        impulse == multiply(normal, j)
        correction == Correction(normal, minDistance, distance)
        ratioA == RDiv(RDiv(One, circleA.mass), totalInverseMass)
        ratioB == RDiv(RDiv(One, circleB.mass), totalInverseMass)
    IN  IF ~RLt(distance, minDistance) THEN <<circleA, circleB>>
        ELSE IF RLt(Zero, velocityAlongNormal) THEN <<circleA, circleB>>
        ELSE <<[circleA EXCEPT
                   !.velocity = add(circleA.velocity,
                                    multiply(impulse, RDiv(One, circleA.mass))),
                   !.position = add(circleA.position, multiply(correction, ratioA))],
               [circleB EXCEPT
                   !.velocity = subtract(circleB.velocity,
                                         multiply(impulse, RDiv(One, circleA.mass))),
                   !.position = subtract(circleB.position,
                                         multiply(correction, ratioB))]>>

\* the resolution with the shares of the correction exchanged: circleA moves
\* by the share of circleB and circleB by the share of circleA
handleCircleToCircleCollision_SwappedRatios(circleA, circleB) ==
    LET distance == Distance(circleA, circleB)
        minDistance == MinDistance(circleA, circleB)
        normal == Normal(circleA, circleB)
        velocityAlongNormal == VelocityAlongNormal(circleA, circleB)
        e == Restitution(circleA, circleB)
        totalInverseMass == TotalInverseMass(circleA, circleB)
        j == ImpulseScalar(e, velocityAlongNormal, totalInverseMass)
        impulse == multiply(normal, j)
        correction == Correction(normal, minDistance, distance)
        ratioA == RDiv(RDiv(One, circleA.mass), totalInverseMass)
        ratioB == RDiv(RDiv(One, circleB.mass), totalInverseMass)
    IN  IF ~RLt(distance, minDistance) THEN <<circleA, circleB>>
        ELSE IF RLt(Zero, velocityAlongNormal) THEN <<circleA, circleB>>
        ELSE <<[circleA EXCEPT
                   !.velocity = add(circleA.velocity,
                                    multiply(impulse, RDiv(One, circleA.mass))),
                   !.position = add(circleA.position, multiply(correction, ratioB))],
               [circleB EXCEPT
                   !.velocity = subtract(circleB.velocity,
                                         multiply(impulse, RDiv(One, circleB.mass))),
                   !.position = subtract(circleB.position,
                                         multiply(correction, ratioA))]>>

\* the resolution without the return for a separating pair
handleCircleToCircleCollision_NoSkip(circleA, circleB) ==
    LET distance == Distance(circleA, circleB)
        minDistance == MinDistance(circleA, circleB)
        normal == Normal(circleA, circleB)
        velocityAlongNormal == VelocityAlongNormal(circleA, circleB)
        e == Restitution(circleA, circleB)
        totalInverseMass == TotalInverseMass(circleA, circleB)
        j == ImpulseScalar(e, velocityAlongNormal, totalInverseMass)
        impulse == multiply(normal, j)
        correction == Correction(normal, minDistance, distance)
        ratioA == RDiv(RDiv(One, circleA.mass), totalInverseMass)
        ratioB == RDiv(RDiv(One, circleB.mass), totalInverseMass)
    IN  IF ~RLt(distance, minDistance) THEN <<circleA, circleB>>
        ELSE <<[circleA EXCEPT
                   !.velocity = add(circleA.velocity,
                                    multiply(impulse, RDiv(One, circleA.mass))),
                   !.position = add(circleA.position, multiply(correction, ratioA))],
               [circleB EXCEPT
                   !.velocity = subtract(circleB.velocity,
                                         multiply(impulse, RDiv(One, circleB.mass))),
                   !.position = subtract(circleB.position,
                                         multiply(correction, ratioB))]>>

handleCircleToCircleCollision(circleA, circleB) ==
    LET distance == Distance(circleA, circleB)
        minDistance == MinDistance(circleA, circleB)
        normal == Normal(circleA, circleB)
        velocityAlongNormal == VelocityAlongNormal(circleA, circleB)
        e == Restitution(circleA, circleB)
        totalInverseMass == TotalInverseMass(circleA, circleB)
        j == ImpulseScalar(e, velocityAlongNormal, totalInverseMass)
        impulse == multiply(normal, j)
        correction == Correction(normal, minDistance, distance)
        ratioA == RDiv(RDiv(One, circleA.mass), totalInverseMass)
        ratioB == RDiv(RDiv(One, circleB.mass), totalInverseMass)
    IN  IF ~RLt(distance, minDistance) THEN <<circleA, circleB>>
        ELSE IF RLt(Zero, velocityAlongNormal) THEN <<circleA, circleB>>
        ELSE <<[circleA EXCEPT
                   !.velocity = add(circleA.velocity,
                                    multiply(impulse, RDiv(One, circleA.mass))),
                   !.position = add(circleA.position, multiply(correction, ratioA))],
               [circleB EXCEPT
                   !.velocity = subtract(circleB.velocity,
                                         multiply(impulse, RDiv(One, circleB.mass))),
                   !.position = subtract(circleB.position,
                                         multiply(correction, ratioB))]>>

\* a loop body that turns both bodies of a pair with a Box around
CollidePair_BoxBounce(objs, i, j) ==
    IF objs[i].kind = "circle" /\ objs[j].kind = "circle"
    THEN LET r == handleCircleToCircleCollision(objs[i], objs[j])
         IN  [objs EXCEPT ![i] = r[1], ![j] = r[2]]
    ELSE [objs EXCEPT ![i].velocity = multiply(@, Num(-1)),
                      ![j].velocity = multiply(@, Num(-1))]

\* the body of the two nested loops of checkCollisions for the pair (i, j)
CollidePair(objs, i, j) ==
    IF objs[i].kind = "circle" /\ objs[j].kind = "circle"
    THEN LET r == handleCircleToCircleCollision(objs[i], objs[j])
         IN  [objs EXCEPT ![i] = r[1], ![j] = r[2]]
    ELSE objs

\* PhysicsWorld.checkCollisions: for i, for j > i, in place, from pair (i, j) on
RECURSIVE CollideFrom(_, _, _)
CollideFrom(objs, i, j) ==
    IF i > Len(objs) THEN objs
    ELSE IF j > Len(objs) THEN CollideFrom(objs, i + 1, i + 2)
    ELSE CollideFrom(CollidePair(objs, i, j), i, j + 1)

\* a pass that visits the pairs from the far end of the collection: the pair
\* of the last two bodies first, the pair of the first two last
checkCollisions_Reversed(objs) ==
    LET reverse(seq) == [k \in 1..Len(seq) |-> seq[Len(seq) + 1 - k]]
    IN  reverse(CollideFrom(reverse(objs), 1, 2))

checkCollisions(objs) == CollideFrom(objs, 1, 2)

(***************************************************************************)
(* Bounds and inputs of the model                                          *)
(***************************************************************************)
\* at most this many calls of the mutation API (spawns, parameter changes,
\* clears, toggles, resizes) are made
MaxCalls == 3
\* at most this many animation frames are fired
MaxFrames == 3
\* the significant bits of a number the spawn arithmetic rounds to, and of
\* the values Math.random() returns
MantissaBits == 7
\* a frame is fired only while every position is a multiple of 1/d for some
\* d <= MaxPosDen and every velocity a multiple of 1/d for some d <= MaxVelDen
\* (TLC's integers are 32-bit, and every collision refines the grid)
MaxPosDen == 18000
MaxVelDen == 3000

\* Math.random(): every number of [0, 1) that is a multiple of 2^-MantissaBits
Randoms == {Rat(k, 2 ^ MantissaBits) : k \in 0..(2 ^ MantissaBits - 1)}
\* an argument the caller leaves out
Undefined == <<>>
\* performance.now() when the page has constructed the world, in ms
StartTime == Num(100)
\* the time between two animation frames, in ms: a 60 Hz refresh
FrameDeltas == {Rat(50, 3)}
\* the sizes of the canvas container
ContainerSizes == {[width |-> 200, height |-> 200], [width |-> 200, height |-> 120]}
\* where bodies are spawned; all circles share one column
CircleXs == {Num(100)}
BoxXs == {Num(190)}
SpawnYs == {Num(150), Num(190)}
BoxYs == {Num(190)}
\* the values of the Math.random() calls of one spawn in the world: for the
\* radius and the mass of a circle, and for the width, height and mass of a box
CircleDraws == {<<Zero, Zero>>}
BoxDraws == {<<Zero, Rat(1, 2), Rat(1, 2)>>}
\* arguments of the mutation API, as the sliders of the page give them
GravityArgs == {Num(0)}
ElasticityArgs == {One}
FrictionArgs == {Rat(1, 2)}

(***************************************************************************)
(* The construction of a world, and the page that constructs it            *)
(* (initializePhysics of src/unnamed/part_001)                             *)
(***************************************************************************)
\* the fields of a PhysicsWorld that construction decides, before the
\* constructor body runs: initialized = false and no frame requested;
\* placeholder: this.canvas is a canvas created by the constructor;
\* awaitsDom: a DOMContentLoaded listener will call initializeCanvas
NewWorld ==
    [initialized |-> FALSE, requests |-> 0, placeholder |-> FALSE,
     awaitsDom |-> FALSE]

\* PhysicsWorld.initialize on the world w
initialize(w) ==
    IF w.initialized THEN w
    ELSE [w EXCEPT !.initialized = TRUE, !.requests = @ + 1]

\* new PhysicsWorld(canvasId): threw tells whether the constructor threw,
\* world is the object it returned otherwise
PhysicsWorld_constructor(readyState, canvasFound, contextFound) ==
    IF readyState = "loading" THEN [threw |-> TRUE, world |-> NewWorld]
    ELSE IF ~canvasFound
    THEN [threw |-> FALSE,
          world |-> [NewWorld EXCEPT !.placeholder = TRUE,
                                     !.awaitsDom = (readyState # "complete")]]
    ELSE IF ~contextFound THEN [threw |-> TRUE, world |-> NewWorld]
    ELSE [threw |-> FALSE, world |-> initialize(NewWorld)]

\* PhysicsWorld.initializeCanvas, run by the DOMContentLoaded listener
initializeCanvas(w, canvasFound, contextFound) ==
    IF ~canvasFound \/ ~contextFound THEN [w EXCEPT !.awaitsDom = FALSE]
    ELSE [initialize(w) EXCEPT !.awaitsDom = FALSE, !.placeholder = FALSE]

\* new PhysicsControls(canvasId): the world is constructed first and outlives
\* a failure of validateElements
PhysicsControls_constructor(readyState, canvasFound, contextFound, controlsFound) ==
    LET made == PhysicsWorld_constructor(readyState, canvasFound, contextFound)
    IN  IF made.threw THEN [threw |-> TRUE, worlds |-> <<>>]
        ELSE [threw |-> ~controlsFound, worlds |-> <<made.world>>]

\* the delay of the retry of initializePhysics, in ms
RetryDelay == Num(500)

\* the page once initializePhysics has succeeded at its first attempt
LoadedPage ==
    [readyState |-> "complete", canvasFound |-> TRUE, contextFound |-> TRUE,
     controlsFound |-> TRUE, attempts |-> 1, timers |-> <<>>, scheduled |-> 0,
     reported |-> 0, controls |-> 1, worlds |-> <<initialize(NewWorld)>>]

(***************************************************************************)
(* PhysicsWorld                                                            *)
(***************************************************************************)
VARIABLES
    objects,        \* this.objects, in insertion order
    running,        \* this.running
    lastTimestamp,  \* this.lastTimestamp, in ms
    gravity,        \* this.gravity
    initialized,    \* this.initialized
    canvas,         \* this.canvas.width and this.canvas.height
    drawn,          \* what is on the canvas: the descriptors drawn since clearRect
    pending,        \* the number of update callbacks requestAnimationFrame holds
    now,            \* the clock, in ms (performance.now(), the frame timestamp)
    dt,             \* the dt of the last update that ran while Running
    frames,         \* the number of animation frames fired
    calls,          \* the number of calls of the mutation API made
    call,           \* the last operation and its arguments
    pre,            \* this.objects before the last operation
    page,           \* the page: its document, the worlds constructed, the retry
    ticks           \* the timestamp and the dt of every update that ran while Running

vars == <<objects, running, lastTimestamp, gravity, initialized, canvas, drawn,
          pending, now, dt, frames, calls, call, pre, page, ticks>>

NominalDt == Rat(1, 60)

\* the state after new PhysicsWorld(canvasId) with the canvas present:
\* initialize() has sized the canvas and requested the first frame
Init ==
    /\ objects = <<>>
    /\ running = TRUE
    /\ lastTimestamp = Zero
    /\ gravity = Vector2D(Zero, Rat(98, 10))
    /\ initialized = TRUE
    /\ canvas = [width |-> 200, height |-> 200]
    /\ drawn = <<>>
    /\ pending = 1
    /\ now = StartTime
    /\ dt = Zero
    /\ frames = 0
    /\ calls = 0
    /\ call = [op |-> "constructor", args |-> <<>>]
    /\ pre = <<>>
    /\ page = LoadedPage
    /\ ticks = <<>>

\* const dt = (this.lastTimestamp) ? (timestamp - this.lastTimestamp) / 1000 : 1/60
FrameDt(last, timestamp) ==
    IF last # Zero THEN RDiv(RSub(timestamp, last), Num(1000)) ELSE NominalDt

\* the body of the for loop of update, up to the draw
StepObject(obj, g, dtv, cv) ==
    checkBoundaries(update(applyForce(obj, multiply(g, obj.mass)), dtv), cv)

\* update(timestamp) of a Running world, on the fields w it writes: the dt, the
\* loop over the bodies (gravity, integration, boundaries, draw), the collision
\* pass and the request of the next frame; w.requests counts the requests
RunFrame(w, timestamp) ==
    LET dtv == FrameDt(w.lastTimestamp, timestamp)
        stepped == [i \in 1..Len(w.objects) |->
                       StepObject(w.objects[i], gravity, dtv, canvas)]
    IN  [objects |-> checkCollisions(stepped),
         lastTimestamp |-> timestamp,
         drawn |-> [i \in 1..Len(stepped) |-> draw(stepped[i])],
         dt |-> dtv,
         ticks |-> Append(w.ticks, [timestamp |-> timestamp, dt |-> dtv]),
         requests |-> w.requests + 1]

\* update(timestamp) without the test of this.running
PhysicsWorld_update_NoPauseTest(w, timestamp) ==
    IF ~initialized THEN [w EXCEPT !.requests = @ + 1]
    ELSE RunFrame(w, timestamp)

\* an update that returns at once while Paused, without requesting a frame
PhysicsWorld_update_StopWhilePaused(w, timestamp) ==
    IF ~initialized THEN [w EXCEPT !.requests = @ + 1]
    ELSE IF ~running THEN w
    ELSE RunFrame(w, timestamp)

\* one run of the callback update(timestamp)
PhysicsWorld_update(w, timestamp) ==
    IF ~initialized THEN [w EXCEPT !.requests = @ + 1]
    ELSE IF ~running THEN [w EXCEPT !.requests = @ + 1]
    ELSE RunFrame(w, timestamp)

\* the frame scheduler runs the k callbacks it holds, all with one timestamp
RECURSIVE RunCallbacks(_, _, _)
RunCallbacks(k, w, timestamp) ==
    IF k = 0 THEN w
    ELSE RunCallbacks(k - 1, PhysicsWorld_update(w, timestamp), timestamp)

\* the bounds MaxPosDen and MaxVelDen on the precision of the bodies
Precise(objs) ==
    \A i \in 1..Len(objs) :
        /\ objs[i].position.x[2] <= MaxPosDen /\ objs[i].position.y[2] <= MaxPosDen
        /\ objs[i].velocity.x[2] <= MaxVelDen /\ objs[i].velocity.y[2] <= MaxVelDen

\* one display refresh, delta ms after the previous one
AnimationFrame(delta) ==
    /\ pending > 0
    /\ frames < MaxFrames
    /\ Precise(objects)
    /\ LET timestamp == RAdd(now, delta)
           w == RunCallbacks(pending,
                             [objects |-> objects, lastTimestamp |-> lastTimestamp,
                              drawn |-> drawn, dt |-> dt, ticks |-> ticks,
                              requests |-> 0],
                             timestamp)
       IN  /\ objects' = w.objects
           /\ lastTimestamp' = w.lastTimestamp
           /\ drawn' = w.drawn
           /\ dt' = w.dt
           /\ ticks' = w.ticks
           /\ pending' = w.requests
           /\ now' = timestamp
    /\ frames' = frames + 1
    /\ call' = [op |-> IF running /\ initialized THEN "update" ELSE "updatePaused",
                args |-> <<delta>>]
    /\ pre' = objects
    /\ UNCHANGED <<page, running, gravity, initialized, canvas, calls>>

\* the default drawn from twice the span
OrRandom_DoubleSpan(arg, base, span, rnd) ==
    IF arg = Undefined
    THEN RoundTo(MantissaBits,
                 RAdd(Num(base), RoundTo(MantissaBits, RMul(rnd, Num(2 * span)))))
    ELSE arg

\* radius ?? (20 + Math.random() * 20), and the like: a product and a sum,
\* each rounded
OrRandom(arg, base, span, rnd) ==
    IF arg = Undefined
    THEN RoundTo(MantissaBits,
                 RAdd(Num(base), RoundTo(MantissaBits, RMul(rnd, Num(span)))))
    ELSE arg

\* a spawn that gives the new circle the elasticity and the friction of the
\* oldest body of the world
newCircle_Inherit(x, y, radius, mass, rnd1, rnd2) ==
    LET circle == Circle(Vector2D(x, y), OrRandom(radius, 20, 20, rnd1),
                         OrRandom(mass, 1, 5, rnd2))
    IN  IF objects = <<>> THEN circle
        ELSE [circle EXCEPT !.elasticity = objects[1].elasticity,
                            !.friction = objects[1].friction]

newCircle(x, y, radius, mass, rnd1, rnd2) ==
    Circle(Vector2D(x, y), OrRandom(radius, 20, 20, rnd1), OrRandom(mass, 1, 5, rnd2))

newBox(x, y, width, height, mass, rnd1, rnd2, rnd3) ==
    Box(Vector2D(x, y), OrRandom(width, 30, 40, rnd1), OrRandom(height, 30, 40, rnd2),
        OrRandom(mass, 1, 5, rnd3))

\* an addCircle that puts the new circle in front of the collection
addCircle_Prepend(x, y, radius, mass, rnd1, rnd2) ==
    /\ calls < MaxCalls
    /\ calls' = calls + 1
    /\ objects' = <<newCircle(x, y, radius, mass, rnd1, rnd2)>> \o objects
    /\ call' = [op |-> "addCircle", args |-> <<x, y, radius, mass>>]
    /\ pre' = objects
    /\ UNCHANGED <<page, ticks, running, lastTimestamp, gravity, initialized, canvas, drawn,
                   pending, now, dt, frames>>

addCircle(x, y, radius, mass, rnd1, rnd2) ==
    /\ calls < MaxCalls
    /\ calls' = calls + 1
    /\ objects' = Append(objects, newCircle(x, y, radius, mass, rnd1, rnd2))
    /\ call' = [op |-> "addCircle", args |-> <<x, y, radius, mass>>]
    /\ pre' = objects
    /\ UNCHANGED <<page, ticks, running, lastTimestamp, gravity, initialized, canvas, drawn,
                   pending, now, dt, frames>>

addBox(x, y, width, height, mass, rnd1, rnd2, rnd3) ==
    /\ calls < MaxCalls
    /\ calls' = calls + 1
    /\ objects' = Append(objects, newBox(x, y, width, height, mass, rnd1, rnd2, rnd3))
    /\ call' = [op |-> "addBox", args |-> <<x, y, width, height, mass>>]
    /\ pre' = objects
    /\ UNCHANGED <<page, ticks, running, lastTimestamp, gravity, initialized, canvas, drawn,
                   pending, now, dt, frames>>

setGravity(x, y) ==
    /\ calls < MaxCalls
    /\ calls' = calls + 1
    /\ gravity' = Vector2D(x, y)
    /\ call' = [op |-> "setGravity", args |-> <<x, y>>]
    /\ pre' = objects
    /\ UNCHANGED <<page, ticks, objects, running, lastTimestamp, initialized, canvas, drawn,
                   pending, now, dt, frames>>

\* setGlobalElasticity stopping after the first body
withElasticity_FirstOnly(objs, elasticity) ==
    [i \in 1..Len(objs) |->
        IF i = 1 THEN [objs[i] EXCEPT !.elasticity = elasticity] ELSE objs[i]]

withElasticity(objs, elasticity) ==
    [i \in 1..Len(objs) |-> [objs[i] EXCEPT !.elasticity = elasticity]]

withFriction(objs, friction) ==
    [i \in 1..Len(objs) |-> [objs[i] EXCEPT !.friction = friction]]

setGlobalElasticity(elasticity) ==
    /\ calls < MaxCalls
    /\ calls' = calls + 1
    /\ objects' = withElasticity(objects, elasticity)
    /\ call' = [op |-> "setGlobalElasticity", args |-> <<elasticity>>]
    /\ pre' = objects
    /\ UNCHANGED <<page, ticks, running, lastTimestamp, gravity, initialized, canvas, drawn,
                   pending, now, dt, frames>>

setGlobalFriction(friction) ==
    /\ calls < MaxCalls
    /\ calls' = calls + 1
    /\ objects' = withFriction(objects, friction)
    /\ call' = [op |-> "setGlobalFriction", args |-> <<friction>>]
    /\ pre' = objects
    /\ UNCHANGED <<page, ticks, running, lastTimestamp, gravity, initialized, canvas, drawn,
                   pending, now, dt, frames>>

\* a clearObjects that leaves the oldest body in the collection
clearObjects_KeepFirst ==
    /\ calls < MaxCalls
    /\ calls' = calls + 1
    /\ objects' = IF objects = <<>> THEN <<>> ELSE <<Head(objects)>>
    /\ call' = [op |-> "clearObjects", args |-> <<>>]
    /\ pre' = objects
    /\ UNCHANGED <<page, ticks, running, lastTimestamp, gravity, initialized, canvas, drawn,
                   pending, now, dt, frames>>

clearObjects ==
    /\ calls < MaxCalls
    /\ calls' = calls + 1
    /\ objects' = <<>>
    /\ call' = [op |-> "clearObjects", args |-> <<>>]
    /\ pre' = objects
    /\ UNCHANGED <<page, ticks, running, lastTimestamp, gravity, initialized, canvas, drawn,
                   pending, now, dt, frames>>

\* a pauseSimulation that resumes a Paused world and leaves a Running one alone
pauseSimulation_ResumeOnly ==
    /\ calls < MaxCalls
    /\ calls' = calls + 1
    /\ running' = TRUE
    /\ call' = [op |-> "pauseSimulation", args |-> <<>>]
    /\ pre' = objects
    /\ UNCHANGED <<page, ticks, objects, lastTimestamp, pending, gravity, initialized,
                   canvas, drawn, now, dt, frames>>

\* this.running = !this.running; a world that has never run an update takes
\* performance.now() as its baseline and requests a frame
pauseSimulation ==
    /\ calls < MaxCalls
    /\ calls' = calls + 1
    /\ running' = ~running
    /\ IF running' /\ lastTimestamp = Zero
       THEN lastTimestamp' = now /\ pending' = pending + 1
       ELSE UNCHANGED <<lastTimestamp, pending>>
    /\ call' = [op |-> "pauseSimulation", args |-> <<>>]
    /\ pre' = objects
    /\ UNCHANGED <<page, ticks, objects, gravity, initialized, canvas, drawn, now, dt, frames>>

\* the window's resize event: the canvas takes the size of its container
resetCanvasSize(size) ==
    /\ calls < MaxCalls
    /\ calls' = calls + 1
    /\ size # canvas
    /\ canvas' = size
    /\ call' = [op |-> "resetCanvasSize", args |-> <<size>>]
    /\ pre' = objects
    /\ UNCHANGED <<page, ticks, objects, running, lastTimestamp, gravity, initialized, drawn,
                   pending, now, dt, frames>>

\* getRunningState()
getRunningState == running

Next ==
    \/ \E delta \in FrameDeltas : AnimationFrame(delta)
    \/ \E x \in CircleXs, y \in SpawnYs, rnd \in CircleDraws :
          addCircle(x, y, Undefined, Undefined, rnd[1], rnd[2])
    \/ \E x \in BoxXs, y \in BoxYs, rnd \in BoxDraws :
          addBox(x, y, Undefined, Undefined, Undefined, rnd[1], rnd[2], rnd[3])
    \/ \E y \in GravityArgs : setGravity(Zero, y)
    \/ \E elasticity \in ElasticityArgs : setGlobalElasticity(elasticity)
    \/ \E friction \in FrictionArgs : setGlobalFriction(friction)
    \/ clearObjects
    \/ pauseSimulation
    \/ \E size \in ContainerSizes : resetCanvasSize(size)

Spec == Init /\ [][Next]_vars

(***************************************************************************)
(* Properties of the world, checked under Spec                             *)
(***************************************************************************)
Bodies == 1..Len(objects)

\* C1: a frame that fires while the world is Paused leaves the body
\* collection as it was: the same bodies in the same order, each with the
\* position, velocity, acceleration, rotation and angularVelocity it had.
C1_PausedTickChangesNothing ==
    call.op = "updatePaused" => objects = pre

\* a moving body, frozen by a frame that fired while Paused
C1_Witness ==
    /\ call.op = "updatePaused"
    /\ ~running
    /\ \E i \in Bodies : objects[i].velocity # ZeroVector

\* C2: the dt of a Running update does not include time that elapsed while
\* the world was Paused: it is the nominal 1/60 s or at most the time since
\* the previous frame.  (A dt above the time since the previous frame means
\* that lastTimestamp is older than the previous frame, so that frame fired
\* while Paused: the update is the first one after a resume.)
C2_ResumeDtIsFresh ==
    call.op = "update" =>
        \/ dt = NominalDt
        \/ RLe(RMul(dt, Num(1000)), call.args[1])

\* C3: what a Running update leaves on the canvas is the state of the bodies
\* at the end of that update, after its collision pass.
C3_DrawnAfterCollisions ==
    call.op = "update" =>
        drawn = [i \in Bodies |-> draw(objects[i])]

\* C4: setGlobalElasticity(e) and setGlobalFriction(f) set that one field of
\* every body, at once, Running or Paused, and change nothing else.
C4_GlobalSetIsRetroactive ==
    [][/\ call'.op = "setGlobalElasticity" =>
            /\ objects' = [i \in Bodies |->
                              [objects[i] EXCEPT !.elasticity = call'.args[1]]]
            /\ UNCHANGED <<running, lastTimestamp, gravity, initialized, canvas,
                           drawn, pending, now, dt>>
       /\ call'.op = "setGlobalFriction" =>
            /\ objects' = [i \in Bodies |->
                              [objects[i] EXCEPT !.friction = call'.args[1]]]
            /\ UNCHANGED <<running, lastTimestamp, gravity, initialized, canvas,
                           drawn, pending, now, dt>>]_vars

\* two bodies whose elasticity has just been overwritten, with no frame since
\* they were added
C4_Witness ==
    /\ call.op = "setGlobalElasticity"
    /\ frames = 0
    /\ Len(objects) >= 2
    /\ \A i \in Bodies : /\ pre[i].elasticity # call.args[1]
                         /\ objects[i].elasticity = call.args[1]

\* the body i as the last update had it after integration, before the walls
Integrated(i) == update(applyForce(pre[i], multiply(gravity, pre[i].mass)), dt)

\* no other circle overlapped circle i when the last collision pass began
Untouched(i) ==
    \A k \in Bodies \ {i} :
        \/ drawn[k].kind = "box"
        \/ ~RLt(magnitude(subtract(drawn[i].position, drawn[k].position)),
                RAdd(drawn[i].radius, drawn[k].radius))

CrossesBottom(b) == RLt(Num(canvas.height), RAdd(b.position.y, b.radius))

\* C8: a circle that an update finds across the bottom wall, in an arena that
\* holds it and with no other circle pushing it, ends the update at
\* y = H - r with velocity.y = -(velocity.y before the walls) * elasticity
\* and with the x it had.
C8_BottomBounce ==
    (call.op = "update" /\ pending = 1) =>
        \A i \in Bodies :
            (/\ pre[i].kind = "circle"
             /\ CrossesBottom(Integrated(i))
             /\ RLe(RMul(Num(2), pre[i].radius), Num(canvas.height))
             /\ RLe(pre[i].radius, pre[i].position.x)
             /\ RLe(RAdd(pre[i].position.x, pre[i].radius), Num(canvas.width))
             /\ Untouched(i))
            => /\ objects[i].position.y = RSub(Num(canvas.height), pre[i].radius)
               /\ objects[i].velocity.y =
                      RMul(RNeg(Integrated(i).velocity.y), pre[i].elasticity)
               /\ objects[i].position.x = Integrated(i).position.x

\* a circle placed at y = H - r/2 that fell through the bottom and bounced
C8_Witness ==
    /\ call.op = "update"
    /\ pending = 1
    /\ \E i \in Bodies :
          /\ pre[i].kind = "circle"
          /\ pre[i].position.y =
                 RSub(Num(canvas.height), RDiv(pre[i].radius, Num(2)))
          /\ RLt(Zero, Integrated(i).velocity.y)
          /\ Untouched(i)
          /\ objects[i].position.y = RSub(Num(canvas.height), pre[i].radius)
          /\ RLt(objects[i].velocity.y, Zero)

(***************************************************************************)
(* The collision pass on one pair of circles: SpecCollide draws the pair   *)
(* and applies checkCollisions to it once                                  *)
(***************************************************************************)
\* circleB sits at PairCentre, circleA at one of the offsets from it: three
\* overlapping placements, the coincident one and one that does not touch
PairCentre == Vector2D(Num(100), Num(100))
PairOffsets == {Vector2D(Zero, Num(-30)), Vector2D(Num(18), Num(24)),
                Vector2D(Num(-30), Zero), ZeroVector, Vector2D(Zero, Num(-50))}
PairRadius == Num(20)
PairMasses == {One, Num(2)}
PairElasticities == {Zero, Rat(7, 10), One}
VelocitiesA == {ZeroVector, Vector2D(Zero, Num(3)), Vector2D(Zero, Num(-3)),
                Vector2D(Num(-3), Num(-4)), Vector2D(Num(4), Num(-3))}
VelocitiesB == {ZeroVector, Vector2D(Zero, Num(-3)), Vector2D(Num(3), Num(4))}

\* new Circle({position, velocity, radius, mass, elasticity})
MovingCircle(position, velocity, radius, mass, elasticity) ==
    [Circle(position, radius, mass) EXCEPT !.velocity = velocity,
                                           !.elasticity = elasticity]

InitCollide ==
    /\ \E offset \in PairOffsets, vA \in VelocitiesA, vB \in VelocitiesB,
          mA \in PairMasses, mB \in PairMasses,
          eA \in PairElasticities, eB \in PairElasticities :
          objects = <<MovingCircle(add(PairCentre, offset), vA, PairRadius, mA, eA),
                      MovingCircle(PairCentre, vB, PairRadius, mB, eB)>>
    /\ running = TRUE
    /\ lastTimestamp = StartTime
    /\ gravity = Vector2D(Zero, Rat(98, 10))
    /\ initialized = TRUE
    /\ canvas = [width |-> 200, height |-> 200]
    /\ drawn = <<>>
    /\ pending = 1
    /\ now = StartTime
    /\ dt = Zero
    /\ frames = 0
    /\ calls = 0
    /\ call = [op |-> "pair", args |-> <<>>]
    /\ pre = <<>>
    /\ page = LoadedPage
    /\ ticks = <<>>

\* this.checkCollisions() on the pair
ResolveCollisions ==
    /\ call.op = "pair"
    /\ objects' = checkCollisions(objects)
    /\ call' = [op |-> "checkCollisions", args |-> <<>>]
    /\ pre' = objects
    /\ UNCHANGED <<page, ticks, running, lastTimestamp, gravity, initialized, canvas, drawn,
                   pending, now, dt, frames, calls>>

NextCollide == ResolveCollisions

SpecCollide == InitCollide /\ [][NextCollide]_vars

Resolved == call.op = "checkCollisions"
Overlapping(a, b) == RLt(Distance(a, b), MinDistance(a, b))
KineticEnergy(obj) == RMul(RDiv(obj.mass, Num(2)), dot(obj.velocity, obj.velocity))
\* the velocity v has no component across the direction n
Along(v, n) == RMul(v.x, n.y) = RMul(v.y, n.x)

\* C5 as stated: after the resolution of a pair of circles whose centres were
\* closer than rA + rB, the centres are strictly farther apart than before,
\* whatever the velocities and positions.
C5_OverlapAlwaysWidens ==
    (Resolved /\ Overlapping(pre[1], pre[2])) =>
        RLt(Distance(pre[1], pre[2]), Distance(objects[1], objects[2]))

\* C5, amended: after the resolution of a pair of circles whose centres were
\* closer than rA + rB, did not coincide, and were not separating (vn <= 0),
\* the centres are strictly farther apart than before: their distance d has
\* become d + 0.8 * (rA + rB - d).
C5_ApproachingOverlapWidens ==
    (/\ Resolved
     /\ Overlapping(pre[1], pre[2])
     /\ pre[1].position # pre[2].position
     /\ ~RLt(Zero, VelocityAlongNormal(pre[1], pre[2])))
    => /\ RLt(Distance(pre[1], pre[2]), Distance(objects[1], objects[2]))
       /\ Distance(objects[1], objects[2]) =
              RAdd(Distance(pre[1], pre[2]),
                   RMul(CorrectionPercent,
                        RSub(MinDistance(pre[1], pre[2]),
                             Distance(pre[1], pre[2]))))

\* an approaching overlapping pair of unequal masses, pushed apart by
\* 0.8 * (minDistance - distance)
C5_Witness ==
    /\ Resolved
    /\ Overlapping(pre[1], pre[2])
    /\ RLt(VelocityAlongNormal(pre[1], pre[2]), Zero)
    /\ pre[1].mass # pre[2].mass
    /\ pre[1].position.x # pre[2].position.x
    /\ pre[1].position.y # pre[2].position.y
    /\ objects[1].position # pre[1].position
    /\ objects[2].position # pre[2].position

HeadOn(a, b) ==
    /\ Overlapping(a, b)
    /\ Along(a.velocity, Normal(a, b))
    /\ Along(b.velocity, Normal(a, b))
    /\ RLt(VelocityAlongNormal(a, b), Zero)

\* C6: two overlapping circles of equal mass, both of elasticity 1, that
\* approach head-on leave the resolution with their velocities exchanged and
\* with the total kinetic energy they had.
C6_ElasticExchange ==
    (/\ Resolved
     /\ HeadOn(pre[1], pre[2])
     /\ pre[1].mass = pre[2].mass
     /\ pre[1].elasticity = One /\ pre[2].elasticity = One)
    => /\ objects[1].velocity = pre[2].velocity
       /\ objects[2].velocity = pre[1].velocity
       /\ RAdd(KineticEnergy(objects[1]), KineticEnergy(objects[2])) =
              RAdd(KineticEnergy(pre[1]), KineticEnergy(pre[2]))

\* both circles moving, at different speeds, off the axes
C6_Witness ==
    /\ Resolved
    /\ HeadOn(pre[1], pre[2])
    /\ pre[1].mass = pre[2].mass
    /\ pre[1].elasticity = One /\ pre[2].elasticity = One
    /\ pre[1].velocity # ZeroVector /\ pre[2].velocity # ZeroVector
    /\ pre[1].velocity.x # Zero
    /\ objects[1].velocity = pre[2].velocity
    /\ objects[1].velocity # pre[1].velocity

\* C7: two overlapping, approaching circles of equal mass, the smaller of
\* whose elasticities is 0 (elasticities are not negative, so one of them is
\* 0), leave the resolution with no relative velocity along the collision
\* normal.
C7_InelasticNormal ==
    (/\ Resolved
     /\ Overlapping(pre[1], pre[2])
     /\ RLt(VelocityAlongNormal(pre[1], pre[2]), Zero)
     /\ pre[1].mass = pre[2].mass
     /\ (pre[1].elasticity = Zero \/ pre[2].elasticity = Zero))
    => dot(subtract(objects[1].velocity, objects[2].velocity),
           Normal(pre[1], pre[2])) = Zero

\* one circle of elasticity 0 met a circle of elasticity 1 off the normal
C7_Witness ==
    /\ Resolved
    /\ Overlapping(pre[1], pre[2])
    /\ RLt(VelocityAlongNormal(pre[1], pre[2]), Zero)
    /\ pre[1].mass = pre[2].mass
    /\ pre[1].elasticity = Zero /\ pre[2].elasticity = One
    /\ ~Along(pre[1].velocity, Normal(pre[1], pre[2]))
    /\ objects[1].velocity # pre[1].velocity

(***************************************************************************)
(* Free fall: SpecFall starts from a world that has run one frame while    *)
(* empty, in a tall arena, and has then been given its gravity and three   *)
(* bodies at rest, far from each other and from the walls; the display     *)
(* then fires frames at a constant period                                  *)
(***************************************************************************)
FallArena == [width |-> 1000, height |-> 100000]
FallY == Num(100)
FallXs == <<Num(100), Num(300), Num(500)>>
FallGravities == {Rat(98, 10), Num(10), Num(20)}
\* the refresh period of the display, in ms
FallDeltas == {Rat(50, 3), Num(20)}
FallCircleMasses == {One, Rat(7, 2)}
FallBoxMasses == {Num(2), Num(5)}

InitFall ==
    /\ \E m1 \in FallCircleMasses, m2 \in FallCircleMasses, m3 \in FallBoxMasses :
          objects = <<Circle(Vector2D(FallXs[1], FallY), Num(20), m1),
                      Circle(Vector2D(FallXs[2], FallY), Num(20), m2),
                      Box(Vector2D(FallXs[3], FallY), Num(30), Num(30), m3)>>
    /\ \E g \in FallGravities : gravity = Vector2D(Zero, g)
    /\ \E delta \in FallDeltas : call = [op |-> "display", args |-> <<delta>>]
    /\ running = TRUE
    /\ lastTimestamp = StartTime
    /\ initialized = TRUE
    /\ canvas = FallArena
    /\ drawn = <<>>
    /\ pending = 1
    /\ now = StartTime
    /\ dt = NominalDt
    /\ frames = 0
    /\ calls = 0
    /\ pre = <<>>
    /\ page = LoadedPage
    /\ ticks = <<[timestamp |-> StartTime, dt |-> NominalDt]>>

\* the next frame of the display, one period after the previous one
NextFall == \E delta \in FallDeltas : delta = call.args[1] /\ AnimationFrame(delta)

SpecFall == InitFall /\ [][NextFall]_vars

\* the dt of every tick of the fall, in seconds
FallDt == RDiv(call.args[1], Num(1000))

\* C9: after n Running ticks of the same dt under constant gravity g, in which
\* no wall and no other body is hit, a body that started at rest has
\* velocity.y = g.y * n * dt and position.y = initial y + g.y * dt^2 * n(n+1)/2,
\* whatever its mass.
C9_EulerClosedForm ==
    \A i \in Bodies :
        /\ objects[i].velocity.y = RMul(gravity.y, RMul(Num(frames), FallDt))
        /\ objects[i].position.y =
               RAdd(FallY, RMul(RMul(gravity.y, RMul(FallDt, FallDt)),
                                Rat(frames * (frames + 1), 2)))
        /\ objects[i].velocity.x = Zero
        /\ objects[i].position.x = FallXs[i]
        /\ frames > 0 => dt = FallDt

\* three ticks at a period other than the nominal one, on bodies of three
\* different masses
C9_Witness ==
    /\ call.op = "update"
    /\ frames >= 3
    /\ dt # NominalDt
    /\ objects[1].mass # objects[2].mass
    /\ objects[2].mass # objects[3].mass
    /\ objects[1].mass # objects[3].mass
    /\ objects[3].kind = "box"
    /\ \A i \in Bodies : RLt(FallY, objects[i].position.y)

(***************************************************************************)
(* Spawns: SpecSpawn makes one call of addCircle or addBox, with every     *)
(* value Math.random() can return, on a new world or on a world that holds *)
(* a body                                                                  *)
(***************************************************************************)
\* the radius, width and height arguments: left out, or given
SizeArgs == {Undefined, Num(50)}
\* the ends and the middle of Randoms
EdgeDraws == {Zero, Rat(1, 2), Rat(2 ^ MantissaBits - 1, 2 ^ MantissaBits)}
\* the draws of one spawn: each draw takes every value of Randoms while the
\* others are at an end or in the middle
CircleSpawnDraws == (Randoms \X EdgeDraws) \cup (EdgeDraws \X Randoms)
BoxSpawnDraws == (Randoms \X EdgeDraws \X EdgeDraws)
                     \cup (EdgeDraws \X Randoms \X EdgeDraws)
                     \cup (EdgeDraws \X EdgeDraws \X Randoms)

InitSpawn ==
    /\ objects \in {<<>>, <<Circle(Vector2D(Num(100), Num(150)), Num(20), One)>>}
    /\ running = TRUE
    /\ lastTimestamp = Zero
    /\ gravity = Vector2D(Zero, Rat(98, 10))
    /\ initialized = TRUE
    /\ canvas = [width |-> 200, height |-> 200]
    /\ drawn = <<>>
    /\ pending = 1
    /\ now = StartTime
    /\ dt = Zero
    /\ frames = 0
    /\ calls = 0
    /\ call = [op |-> "constructor", args |-> <<>>]
    /\ pre = <<>>
    /\ page = LoadedPage
    /\ ticks = <<>>

NextSpawn ==
    /\ calls = 0
    /\ \/ \E x \in CircleXs, y \in SpawnYs, radius \in SizeArgs,
             rnd \in CircleSpawnDraws :
             addCircle(x, y, radius, Undefined, rnd[1], rnd[2])
       \/ \E x \in BoxXs, y \in BoxYs, width \in SizeArgs, rnd \in BoxSpawnDraws :
             addBox(x, y, width, Undefined, Undefined, rnd[1], rnd[2], rnd[3])

SpecSpawn == InitSpawn /\ [][NextSpawn]_vars

\* lo <= a < hi, and lo <= a <= hi
InHalfOpen(a, lo, hi) == RLe(Num(lo), a) /\ RLt(a, Num(hi))
InClosed(a, lo, hi) == RLe(Num(lo), a) /\ RLe(a, Num(hi))

Spawned == objects[Len(objects)]
AppendedOne == Len(objects) = Len(pre) + 1 /\ SubSeq(objects, 1, Len(pre)) = pre

\* C10 as stated: addCircle without radius and mass appends one circle of
\* radius in [20, 40) and mass in [1, 6); addBox without width, height and
\* mass appends one box of width and height in [30, 70) and mass in [1, 6);
\* for every value of Math.random().  (An argument that is given is not
\* constrained.)
C10_SpawnInHalfOpenRanges ==
    /\ call.op = "addCircle" =>
          /\ AppendedOne
          /\ Spawned.kind = "circle"
          /\ call.args[3] = Undefined => InHalfOpen(Spawned.radius, 20, 40)
          /\ call.args[4] = Undefined => InHalfOpen(Spawned.mass, 1, 6)
    /\ call.op = "addBox" =>
          /\ AppendedOne
          /\ Spawned.kind = "box"
          /\ call.args[3] = Undefined => InHalfOpen(Spawned.width, 30, 70)
          /\ call.args[4] = Undefined => InHalfOpen(Spawned.height, 30, 70)
          /\ call.args[5] = Undefined => InHalfOpen(Spawned.mass, 1, 6)

\* C10, amended: the radius is in [20, 40] and the width and height are in
\* [30, 70], ends included (the sum rounds up to the end of the range for
\* the largest draws); the mass is in [1, 6).
C10_SpawnInClosedRanges ==
    /\ call.op = "addCircle" =>
          /\ AppendedOne
          /\ Spawned.kind = "circle"
          /\ call.args[3] = Undefined => InClosed(Spawned.radius, 20, 40)
          /\ call.args[4] = Undefined => InHalfOpen(Spawned.mass, 1, 6)
    /\ call.op = "addBox" =>
          /\ AppendedOne
          /\ Spawned.kind = "box"
          /\ call.args[3] = Undefined => InClosed(Spawned.width, 30, 70)
          /\ call.args[4] = Undefined => InClosed(Spawned.height, 30, 70)
          /\ call.args[5] = Undefined => InHalfOpen(Spawned.mass, 1, 6)

\* a circle spawned without radius and mass behind an existing body, whose
\* radius came out as 40
C10_Witness ==
    /\ call.op = "addCircle"
    /\ call.args[3] = Undefined /\ call.args[4] = Undefined
    /\ Len(objects) = 2
    /\ Spawned.radius = Num(40)
    /\ InHalfOpen(Spawned.mass, 1, 6)

(***************************************************************************)
(* The page: SpecPage runs the script of src/unnamed/part_001 on a         *)
(* document that is parsed or complete, whose canvas, drawing context and  *)
(* controls are each present or still missing, and may appear later        *)
(***************************************************************************)
InitPage ==
    /\ \E readyState \in {"interactive", "complete"},
          canvasFound \in BOOLEAN, contextFound \in BOOLEAN,
          controlsFound \in BOOLEAN :
          page = [readyState |-> readyState, canvasFound |-> canvasFound,
                  contextFound |-> contextFound, controlsFound |-> controlsFound,
                  attempts |-> 0, timers |-> <<>>, scheduled |-> 0,
                  reported |-> 0, controls |-> 0, worlds |-> <<>>]
    /\ objects = <<>>
    /\ running = TRUE
    /\ lastTimestamp = Zero
    /\ gravity = Vector2D(Zero, Rat(98, 10))
    /\ initialized = FALSE
    /\ canvas = [width |-> 200, height |-> 200]
    /\ drawn = <<>>
    /\ pending = 0
    /\ now = StartTime
    /\ dt = Zero
    /\ frames = 0
    /\ calls = 0
    /\ call = [op |-> "script", args |-> <<>>]
    /\ pre = <<>>
    /\ ticks = <<>>

\* new PhysicsControls('physics-canvas') on the page p
Construct(p) ==
    PhysicsControls_constructor(p.readyState, p.canvasFound, p.contextFound,
                                p.controlsFound)

\* the retry callback that schedules a further retry when it fails
retryCallback_Reschedule(p, made, time) ==
    [p EXCEPT !.attempts = @ + 1,
              !.worlds = @ \o made.worlds,
              !.controls = IF made.threw THEN @ ELSE @ + 1,
              !.timers = IF made.threw THEN Append(Tail(@), RAdd(time, RetryDelay))
                         ELSE Tail(@),
              !.scheduled = IF made.threw THEN @ + 1 ELSE @,
              !.reported = IF made.threw THEN @ + 1 ELSE @]

\* the body of initializePhysics at time time, made being the outcome of its
\* new PhysicsControls: a failure schedules the retry
initializePhysics(p, made, time) ==
    [p EXCEPT !.attempts = @ + 1,
              !.worlds = @ \o made.worlds,
              !.controls = IF made.threw THEN @ ELSE @ + 1,
              !.timers = IF made.threw THEN Append(@, RAdd(time, RetryDelay)) ELSE @,
              !.scheduled = IF made.threw THEN @ + 1 ELSE @]

\* the callback of the setTimeout of initializePhysics: a failure is reported
retryCallback(p, made, time) ==
    [p EXCEPT !.attempts = @ + 1,
              !.worlds = @ \o made.worlds,
              !.controls = IF made.threw THEN @ ELSE @ + 1,
              !.timers = Tail(@),
              !.reported = IF made.threw THEN @ + 1 ELSE @]

\* the script runs initializePhysics, at once or on the load event
InitializePhysics ==
    /\ page.attempts = 0
    /\ page' = initializePhysics(page, Construct(page), now)
    /\ call' = [op |-> "initializePhysics", args |-> <<>>]
    /\ UNCHANGED <<ticks, objects, running, lastTimestamp, gravity, initialized, canvas,
                   drawn, pending, now, dt, frames, calls, pre>>

\* the retry timer expires
RetryFires ==
    /\ page.timers # <<>>
    /\ now' = page.timers[1]
    /\ page' = retryCallback(page, Construct(page), now')
    /\ call' = [op |-> "retry", args |-> <<>>]
    /\ UNCHANGED <<ticks, objects, running, lastTimestamp, gravity, initialized, canvas,
                   drawn, pending, dt, frames, calls, pre>>

\* the document finishes loading: the DOMContentLoaded listeners of the
\* worlds constructed without a canvas run initializeCanvas
DomContentLoaded ==
    /\ page.readyState = "interactive"
    /\ page' = [page EXCEPT
           !.readyState = "complete",
           !.worlds = [i \in 1..Len(@) |->
                          IF @[i].awaitsDom
                          THEN initializeCanvas(@[i], page.canvasFound,
                                                page.contextFound)
                          ELSE @[i]]]
    /\ call' = [op |-> "DOMContentLoaded", args |-> <<>>]
    /\ UNCHANGED <<ticks, objects, running, lastTimestamp, gravity, initialized, canvas,
                   drawn, pending, now, dt, frames, calls, pre>>

\* the host adds a part of the page that was missing
ElementAppears(part) ==
    /\ ~page[part]
    /\ page' = [page EXCEPT ![part] = TRUE]
    /\ call' = [op |-> "append", args |-> <<part>>]
    /\ UNCHANGED <<ticks, objects, running, lastTimestamp, gravity, initialized, canvas,
                   drawn, pending, now, dt, frames, calls, pre>>

NextPage ==
    \/ InitializePhysics
    \/ RetryFires
    \/ DomContentLoaded
    \/ \E part \in {"canvasFound", "contextFound", "controlsFound"} :
          ElementAppears(part)

SpecPage == InitPage /\ [][NextPage]_vars

Worlds == 1..Len(page.worlds)

\* C11: a PhysicsWorld constructed while the canvas is missing is never
\* returned: no world exists that is bound to a placeholder canvas and has
\* not started its tick loop.
C11_NoDegradedWorld ==
    \A i \in Worlds :
        ~(page.worlds[i].placeholder /\ page.worlds[i].requests = 0)

\* C12: the page makes at most two attempts; a first attempt that fails
\* schedules exactly one retry, RetryDelay after it; a first attempt that
\* succeeds schedules none; a retry that fails is reported, and nothing is
\* scheduled after the retry.
C12_OneBoundedRetry ==
    /\ page.attempts <= 2
    /\ page.scheduled <= 1
    /\ page.attempts = 0 => page.scheduled = 0 /\ page.timers = <<>>
    /\ page.attempts = 1 =>
          IF page.controls = 0
          THEN page.scheduled = 1 /\ page.timers = <<RAdd(now, RetryDelay)>>
          ELSE page.scheduled = 0 /\ page.timers = <<>>
    /\ page.attempts = 2 =>
          /\ page.scheduled = 1
          /\ page.timers = <<>>
          /\ now = RAdd(StartTime, RetryDelay)
          /\ page.reported = (IF page.controls = 0 THEN 1 ELSE 0)
    /\ page.attempts < 2 => page.reported = 0

\* both attempts failed and the failure was reported
C12_Witness ==
    /\ call.op = "retry"
    /\ page.attempts = 2
    /\ page.controls = 0
    /\ page.reported = 1
    /\ page.timers = <<>>

(***************************************************************************)
(* Toggling: SpecToggle starts from a new world that has been given one    *)
(* body and then only toggles it and fires frames, so that calls counts    *)
(* the toggles                                                             *)
(***************************************************************************)
InitToggle ==
    /\ objects \in
          {<<Circle(Vector2D(x, y), Num(20), m)>> :
               x \in CircleXs, y \in SpawnYs \cup {Num(50), Num(100)},
               m \in {One, Num(2)}}
          \cup {<<Box(Vector2D(x, y), Num(30), Num(50), m)>> :
                   x \in BoxXs, y \in BoxYs \cup {Num(50)}, m \in {One, Num(2)}}
    /\ running = TRUE
    /\ lastTimestamp = Zero
    /\ gravity = Vector2D(Zero, Rat(98, 10))
    /\ initialized = TRUE
    /\ canvas = [width |-> 200, height |-> 200]
    /\ drawn = <<>>
    /\ pending = 1
    /\ now = StartTime
    /\ dt = Zero
    /\ frames = 0
    /\ calls = 0
    /\ call = [op |-> "constructor", args |-> <<>>]
    /\ pre = <<>>
    /\ page = LoadedPage
    /\ ticks = <<>>

NextToggle ==
    \/ \E delta \in FrameDeltas : AnimationFrame(delta)
    \/ pauseSimulation

SpecToggle == InitToggle /\ [][NextToggle]_vars

\* C13: the world starts Running and every pauseSimulation() flips the state,
\* which getRunningState() returns: after n toggles the world is Running iff
\* n is even; a toggle moves no body, and a frame moves a body only if it
\* fires while the world is Running.
C13_ToggleParity ==
    /\ getRunningState = (calls % 2 = 0)
    /\ call.op = "pauseSimulation" => objects = pre
    /\ (call.op \in {"update", "updatePaused"} /\ objects # pre) =>
           (call.op = "update" /\ getRunningState)

\* Paused and resumed, twice toggled, the world advances its body again
C13_Witness ==
    /\ calls = 2
    /\ getRunningState
    /\ call.op = "update"
    /\ objects # pre
    /\ frames >= 2

(***************************************************************************)
(* Further properties of the world, checked under Spec                     *)
(***************************************************************************)
\* C14: at most one update callback of the world is pending with the frame
\* scheduler, whatever calls of pauseSimulation and frames came before.
C14_SingleTickChain == pending <= 1

\* C15: clearObjects() leaves the collection empty and leaves the gravity, the
\* Running/Paused state, the timestamp baseline and the pending frame as
\* they were; a body spawned next is the only body of the collection.
C15_ClearOnlyEmpties ==
    [][/\ call'.op = "clearObjects" =>
            /\ objects' = <<>>
            /\ UNCHANGED <<gravity, running, lastTimestamp, pending, initialized,
                           canvas, now, dt>>
       /\ (call.op = "clearObjects" /\ call'.op \in {"addCircle", "addBox"}) =>
            /\ Len(objects') = 1
            /\ objects'[1].position = Vector2D(call'.args[1], call'.args[2])
            /\ UNCHANGED <<gravity, running, lastTimestamp, pending>>]_vars

\* a Paused world that has run a frame, emptied of the body it held
C15_Witness ==
    /\ call.op = "clearObjects"
    /\ Len(pre) >= 1
    /\ objects = <<>>
    /\ lastTimestamp # Zero
    /\ ~running
\* what a body keeps for life: its class, its size and its mass
Identity(obj) ==
    IF obj.kind = "circle" THEN <<"circle", obj.radius, obj.mass>>
    ELSE <<"box", obj.width, obj.height, obj.mass>>

\* C16: a step changes the collection only by appending one body at its end
\* (addCircle, addBox, also from a canvas click) or by emptying it
\* (clearObjects); a frame, a toggle, a parameter change or a resize keeps
\* the same bodies in the same order.
C16_AppendOrClearOnly ==
    [][\/ /\ call'.op = "clearObjects"
          /\ objects' = <<>>
       \/ /\ call'.op \in {"addCircle", "addBox"}
          /\ Len(objects') = Len(objects) + 1
          /\ SubSeq(objects', 1, Len(objects)) = objects
          /\ objects'[Len(objects')].kind =
                 (IF call'.op = "addCircle" THEN "circle" ELSE "box")
       \/ /\ call'.op \notin {"clearObjects", "addCircle", "addBox"}
          /\ Len(objects') = Len(objects)
          /\ \A i \in Bodies : Identity(objects'[i]) = Identity(objects[i])]_vars

\* a circle and, behind it, a box, both moved by a frame
C16_Witness ==
    /\ call.op = "update"
    /\ Len(objects) = 2
    /\ objects[1].kind = "circle" /\ objects[2].kind = "box"
    /\ objects[1] # pre[1] /\ objects[2] # pre[2]
\* C17: between frames every body has acceleration (0, 0): a new body starts
\* with it and every update that applies gravity resets it, so that the next
\* update starts its force application from zero.
C17_AccelerationZeroBetweenTicks ==
    \A i \in Bodies : objects[i].acceleration = ZeroVector

\* a circle and a box that a frame has accelerated, under a gravity that
\* is not zero
C17_Witness ==
    /\ call.op = "update"
    /\ gravity.y # Zero
    /\ \E i, j \in Bodies :
          /\ objects[i].kind = "circle" /\ objects[j].kind = "box"
          /\ objects[i].velocity # pre[i].velocity
          /\ objects[j].velocity # pre[j].velocity
          /\ objects[i].acceleration = ZeroVector
          /\ objects[j].acceleration = ZeroVector

(***************************************************************************)
(* The collision pass on boxes: SpecBoxPairs draws two or three bodies,    *)
(* at least one of them a Box, on top of or next to each other, and        *)
(* applies checkCollisions to them once                                    *)
(***************************************************************************)
MixedKinds == {<<"box", "circle">>, <<"circle", "box">>, <<"box", "box">>,
               <<"circle", "box", "circle">>, <<"box", "circle", "circle">>,
               <<"circle", "circle", "box">>}
\* body k sits at PairCentre + (k - 1) * step
MixedSteps == {ZeroVector, Vector2D(Num(10), Zero), Vector2D(Zero, Num(30))}
MixedVelocities == {Vector2D(Zero, Num(3)), Vector2D(Num(-3), Num(-4)),
                    Vector2D(Num(4), Num(-3))}

\* new Circle / new Box with a position and a velocity
MovingBody(kind, position, velocity) ==
    IF kind = "circle"
    THEN [Circle(position, PairRadius, One) EXCEPT !.velocity = velocity]
    ELSE [Box(position, Num(30), Num(50), Num(2)) EXCEPT !.velocity = velocity]

InitBoxPairs ==
    /\ \E kinds \in MixedKinds, step \in MixedSteps,
          v \in [1..3 -> MixedVelocities] :
          objects = [k \in 1..Len(kinds) |->
                        MovingBody(kinds[k],
                                   add(PairCentre, multiply(step, Num(k - 1))),
                                   v[k])]
    /\ running = TRUE
    /\ lastTimestamp = StartTime
    /\ gravity = Vector2D(Zero, Rat(98, 10))
    /\ initialized = TRUE
    /\ canvas = [width |-> 200, height |-> 200]
    /\ drawn = <<>>
    /\ pending = 1
    /\ now = StartTime
    /\ dt = Zero
    /\ frames = 0
    /\ calls = 0
    /\ call = [op |-> "pair", args |-> <<>>]
    /\ pre = <<>>
    /\ page = LoadedPage
    /\ ticks = <<>>

SpecBoxPairs == InitBoxPairs /\ [][NextCollide]_vars

\* the centre of the circle c lies inside the rectangle of the box b
CentreInside(c, b) ==
    /\ RLe(RAbs(RSub(c.position.x, b.position.x)), RDiv(b.width, Num(2)))
    /\ RLe(RAbs(RSub(c.position.y, b.position.y)), RDiv(b.height, Num(2)))

\* C18: the collision pass changes nothing for a pair with a Box: the loop
\* body leaves such a pair as it is, overlapping or not, so the pass leaves
\* every Box as it was, and leaves a collection without two circles as it was.
C18_BoxPairsUntouched ==
    Resolved =>
        /\ \A i, j \in Bodies :
              (i < j /\ (pre[i].kind = "box" \/ pre[j].kind = "box")) =>
                  CollidePair(pre, i, j) = pre
        /\ \A i \in Bodies : pre[i].kind = "box" => objects[i] = pre[i]
        /\ Cardinality({i \in Bodies : pre[i].kind = "circle"}) < 2 => objects = pre

\* a box between two circles whose centres are inside it: the pass moved the
\* circles off each other and left the box
C18_Witness ==
    /\ Resolved
    /\ Len(pre) = 3
    /\ pre[1].kind = "circle" /\ pre[2].kind = "box" /\ pre[3].kind = "circle"
    /\ CentreInside(pre[1], pre[2]) /\ CentreInside(pre[3], pre[2])
    /\ pre[1].velocity # pre[2].velocity
    /\ objects[1] # pre[1] /\ objects[3] # pre[3]
    /\ objects[2] = pre[2]

(***************************************************************************)
(* Further properties of the resolution of one pair, checked under         *)
(* SpecCollide                                                             *)
(***************************************************************************)
\* C19: the resolution leaves two overlapping circles that are separating
\* (vn > 0) as they are, velocities and positions; and two overlapping
\* circles that are not (vn <= 0) leave it with vn >= 0.
C19_SeparatingSkipped ==
    (Resolved /\ Overlapping(pre[1], pre[2])) =>
        IF RLt(Zero, VelocityAlongNormal(pre[1], pre[2]))
        THEN objects = pre
        ELSE /\ RLe(Zero, VelocityAlongNormal(objects[1], objects[2]))
             /\ RLe(Zero, dot(subtract(objects[1].velocity, objects[2].velocity),
                              Normal(pre[1], pre[2])))

\* two overlapping circles of unequal masses, both moving, moving apart
C19_Witness ==
    /\ Resolved
    /\ Overlapping(pre[1], pre[2])
    /\ RLt(Zero, VelocityAlongNormal(pre[1], pre[2]))
    /\ pre[1].velocity # ZeroVector /\ pre[2].velocity # ZeroVector
    /\ pre[1].mass # pre[2].mass
    /\ objects = pre

\* C20: the resolution of two circles whose centres coincide changes neither
\* their velocities nor their positions: the normal is the zero vector, and
\* so are the impulse and the correction.
C20_CoincidentCentres ==
    (Resolved /\ pre[1].position = pre[2].position) =>
        /\ Normal(pre[1], pre[2]) = ZeroVector
        /\ objects = pre

\* two coincident circles of different velocities and elasticities
C20_Witness ==
    /\ Resolved
    /\ pre[1].position = pre[2].position
    /\ pre[1].velocity # pre[2].velocity
    /\ pre[1].velocity # ZeroVector /\ pre[2].velocity # ZeroVector
    /\ pre[1].elasticity # pre[2].elasticity
    /\ objects = pre


\* the momentum of a body, and the direction across the direction n
Momentum(obj) == multiply(obj.velocity, obj.mass)
Tangent(n) == Vector2D(RNeg(n.y), n.x)

\* C21: the resolution of a pair of circles keeps the total momentum
\* mA * velA + mB * velB, whatever the masses, elasticities and velocities,
\* and changes the velocity of each circle along the collision normal only:
\* the change is parallel to the normal and the component across the normal
\* is the one the circle had.
C21_MomentumAndTangentKept ==
    Resolved =>
        /\ add(Momentum(objects[1]), Momentum(objects[2])) =
               add(Momentum(pre[1]), Momentum(pre[2]))
        /\ \A k \in 1..2 :
              /\ dot(objects[k].velocity, Tangent(Normal(pre[1], pre[2]))) =
                     dot(pre[k].velocity, Tangent(Normal(pre[1], pre[2])))
              /\ Along(subtract(objects[k].velocity, pre[k].velocity),
                       Normal(pre[1], pre[2]))
              /\ objects[k].mass = pre[k].mass

\* circles of unequal masses and elasticities that met off the axes, both
\* moving, the first across the normal, and whose velocities both changed
C21_Witness ==
    /\ Resolved
    /\ Overlapping(pre[1], pre[2])
    /\ RLt(VelocityAlongNormal(pre[1], pre[2]), Zero)
    /\ pre[1].mass # pre[2].mass
    /\ pre[1].elasticity # pre[2].elasticity
    /\ Normal(pre[1], pre[2]).x # Zero /\ Normal(pre[1], pre[2]).y # Zero
    /\ ~Along(pre[1].velocity, Normal(pre[1], pre[2]))
    /\ pre[2].velocity # ZeroVector
    /\ objects[1].velocity # pre[1].velocity
    /\ objects[2].velocity # pre[2].velocity


\* the displacement of circle k of the pair by the resolution
Displacement(k) == subtract(objects[k].position, pre[k].position)
\* the part of the penetration depth the correction takes back
CorrectedDepth ==
    RMul(CorrectionPercent,
         RSub(MinDistance(pre[1], pre[2]), Distance(pre[1], pre[2])))
\* the pair overlapped with distinct centres and was not separating: the
\* resolution has applied its positional correction
Corrected ==
    /\ Resolved
    /\ Overlapping(pre[1], pre[2])
    /\ pre[1].position # pre[2].position
    /\ ~RLt(Zero, VelocityAlongNormal(pre[1], pre[2]))

\* C22: the positional correction of an overlapping pair with distinct
\* centres moves A along +n and B along -n, by lengths in the ratio
\* (1/mA) : (1/mB), so that mA * |dA| = mB * |dB| and the heavier circle
\* moves less; the two lengths sum to 0.8 * (rA + rB - d), and the new
\* centre distance is d + 0.8 * (rA + rB - d).
C22_CorrectionSplitByInverseMass ==
    Corrected =>
        LET n == Normal(pre[1], pre[2])
            dA == Displacement(1)
            dB == Displacement(2)
        IN  /\ Along(dA, n) /\ RLt(Zero, dot(dA, n))
            /\ Along(dB, n) /\ RLt(dot(dB, n), Zero)
            /\ RMul(pre[1].mass, magnitude(dA)) = RMul(pre[2].mass, magnitude(dB))
            /\ RLt(pre[2].mass, pre[1].mass) => RLt(magnitude(dA), magnitude(dB))
            /\ RLt(pre[1].mass, pre[2].mass) => RLt(magnitude(dB), magnitude(dA))
            /\ RAdd(magnitude(dA), magnitude(dB)) = CorrectedDepth
            /\ Distance(objects[1], objects[2]) =
                   RAdd(Distance(pre[1], pre[2]), CorrectedDepth)

\* a heavier circle A and a lighter circle B that met off the axes: A moved
\* half as far as B
C22_Witness ==
    /\ Corrected
    /\ pre[1].mass = Num(2) /\ pre[2].mass = One
    /\ Normal(pre[1], pre[2]).x # Zero /\ Normal(pre[1], pre[2]).y # Zero
    /\ magnitude(Displacement(1)) # Zero
    /\ RMul(Num(2), magnitude(Displacement(1))) = magnitude(Displacement(2))


(***************************************************************************)
(* Boundary resolution of one body: SpecWalls draws a Circle or a Box      *)
(* (whose public rotation and angularVelocity the caller has set) inside,  *)
(* across one wall or across two walls of the arena, also of an arena      *)
(* lower than the body, and applies checkBoundaries to it once             *)
(***************************************************************************)
WallArenas == {[width |-> 200, height |-> 200], [width |-> 200, height |-> 30]}
WallXs == {Num(10), Num(100), Num(195)}
WallYs == {Num(10), Num(100), Num(195)}
WallVelocities == {ZeroVector, Vector2D(Num(3), Num(4)), Vector2D(Num(-3), Num(-4)),
                   Vector2D(Num(4), Num(-3))}
WallElasticities == {Zero, Rat(7, 10), One}
WallFrictions == {Zero, Rat(1, 10), Rat(1, 2)}
WallRotations == {Zero, Rat(1, 2)}
WallAngularVelocities == {Zero, Num(2), Num(-1)}

\* new Circle / new Box with a velocity, an elasticity and a friction
WallBody(kind, position, velocity, elasticity, friction) ==
    [MovingBody(kind, position, velocity) EXCEPT !.elasticity = elasticity,
                                                 !.friction = friction]

InitWalls ==
    /\ \E x \in WallXs, y \in WallYs, v \in WallVelocities,
          e \in WallElasticities, f \in WallFrictions :
          \/ objects = <<WallBody("circle", Vector2D(x, y), v, e, f)>>
          \/ \E rotation \in WallRotations, w \in WallAngularVelocities :
                objects = <<[WallBody("box", Vector2D(x, y), v, e, f) EXCEPT
                                !.rotation = rotation, !.angularVelocity = w]>>
    /\ canvas \in WallArenas
    /\ running = TRUE
    /\ lastTimestamp = StartTime
    /\ gravity = Vector2D(Zero, Rat(98, 10))
    /\ initialized = TRUE
    /\ drawn = <<>>
    /\ pending = 1
    /\ now = StartTime
    /\ dt = Zero
    /\ frames = 0
    /\ calls = 0
    /\ call = [op |-> "body", args |-> <<>>]
    /\ pre = <<>>
    /\ page = LoadedPage
    /\ ticks = <<>>

\* this.checkBoundaries(obj) on the body
ResolveBoundaries ==
    /\ call.op = "body"
    /\ objects' = [i \in 1..Len(objects) |-> checkBoundaries(objects[i], canvas)]
    /\ call' = [op |-> "checkBoundaries", args |-> <<>>]
    /\ pre' = objects
    /\ UNCHANGED <<page, ticks, running, lastTimestamp, gravity, initialized, canvas, drawn,
                   pending, now, dt, frames, calls>>

NextWalls == ResolveBoundaries

SpecWalls == InitWalls /\ [][NextWalls]_vars

Bounded == call.op = "checkBoundaries"

\* the walls the body b is found across: the bottom and the right wall by the
\* position it has, the top and the left wall by the position the clamp
\* against the opposite wall leaves
HitsBottom(b) == RLt(Num(canvas.height), RAdd(b.position.y, ExtentY(b)))
HitsTop(b) ==
    LET y == IF HitsBottom(b) THEN RSub(Num(canvas.height), ExtentY(b))
             ELSE b.position.y
    IN  RLt(RSub(y, ExtentY(b)), Zero)
HitsRight(b) == RLt(Num(canvas.width), RAdd(b.position.x, ExtentX(b)))
HitsLeft(b) ==
    LET x == IF HitsRight(b) THEN RSub(Num(canvas.width), ExtentX(b))
             ELSE b.position.x
    IN  RLt(RSub(x, ExtentX(b)), Zero)

\* the factor a wall puts on a velocity component when it is hit
Factor(hit, factor) == IF hit THEN factor ELSE One

\* C23: ground friction and rotational damping are of the bottom wall only.
\* The horizontal velocity is multiplied by (1 - friction) for a bottom hit
\* and by nothing for a top hit (the side walls reflect it); the vertical
\* velocity is left alone by the side walls; the angularVelocity of a Box is
\* multiplied by 0.8 for a bottom hit and is otherwise left alone; and the
\* rotation, mass, elasticity, friction and size are never changed.
C23_GroundFrictionBottomOnly ==
    Bounded =>
        LET b == pre[1]
            a == objects[1]
            reflect == RNeg(b.elasticity)
        IN  /\ a.velocity.x =
                   RMul(RMul(RMul(b.velocity.x,
                                  Factor(HitsBottom(b), RSub(One, b.friction))),
                             Factor(HitsRight(b), reflect)),
                        Factor(HitsLeft(b), reflect))
            /\ a.velocity.y =
                   RMul(RMul(b.velocity.y, Factor(HitsBottom(b), reflect)),
                        Factor(HitsTop(b), reflect))
            /\ b.kind = "box" =>
                  /\ a.angularVelocity =
                         RMul(b.angularVelocity, Factor(HitsBottom(b), AngularDecay))
                  /\ a.rotation = b.rotation
            /\ a.mass = b.mass /\ a.elasticity = b.elasticity
            /\ a.friction = b.friction /\ a.acceleration = b.acceleration
            /\ Identity(a) = Identity(b)

\* a spinning, rotated Box found across the top and the right wall: its
\* vertical velocity was reflected by the top wall, its horizontal velocity
\* by the right wall only, and it spins as before
C23_Witness ==
    /\ Bounded
    /\ pre[1].kind = "box"
    /\ HitsTop(pre[1]) /\ HitsRight(pre[1]) /\ ~HitsBottom(pre[1])
    /\ pre[1].friction = Rat(1, 2) /\ pre[1].elasticity = Rat(7, 10)
    /\ pre[1].angularVelocity = Num(2) /\ pre[1].rotation # Zero
    /\ pre[1].velocity.x # Zero /\ pre[1].velocity.y # Zero
    /\ objects[1].angularVelocity = Num(2)
    /\ objects[1].velocity.x = RMul(RNeg(pre[1].velocity.x), Rat(7, 10))
    /\ objects[1].velocity.y = RMul(RNeg(pre[1].velocity.y), Rat(7, 10))


(***************************************************************************)
(* The first tick: SpecFirstTick starts from a new world that has been     *)
(* given one body, toggles it and fires frames; the first frame comes a    *)
(* full or a part of a refresh period after the construction of the world  *)
(***************************************************************************)
\* the time from the construction of the world, or from the previous frame,
\* to a frame, in ms
FirstTickDeltas == {Rat(50, 3), Num(10)}

NextFirstTick ==
    \/ \E delta \in FirstTickDeltas : AnimationFrame(delta)
    \/ pauseSimulation

SpecFirstTick == InitToggle /\ [][NextFirstTick]_vars

\* C24: the first update that runs while Running uses dt = 1/60 s, whatever
\* toggles came before it, and every later one uses
\* dt = (its timestamp - the timestamp of the previous one) / 1000.
C24_FirstTickNominal ==
    \A k \in 1..Len(ticks) :
        ticks[k].dt =
            IF k = 1 THEN NominalDt
            ELSE RDiv(RSub(ticks[k].timestamp, ticks[k - 1].timestamp), Num(1000))


(***************************************************************************)
(* The collision pass on several circles: SpecTriples draws three or four  *)
(* circles in a row, each overlapping its neighbours, and applies          *)
(* checkCollisions to them once                                            *)
(***************************************************************************)
TripleSizes == {3, 4}
\* circle k sits at PairCentre + (k - 1) * step
TripleSteps == {Vector2D(Num(10), Zero), Vector2D(Zero, Num(30)),
                Vector2D(Num(18), Num(24))}
TripleElasticity == Rat(1, 2)

InitTriples ==
    /\ \E n \in TripleSizes, step \in TripleSteps :
       \E v \in [1..n -> MixedVelocities], m \in [1..n -> PairMasses] :
          objects = [k \in 1..n |->
                        MovingCircle(add(PairCentre, multiply(step, Num(k - 1))),
                                     v[k], PairRadius, m[k], TripleElasticity)]
    /\ running = TRUE
    /\ lastTimestamp = StartTime
    /\ gravity = Vector2D(Zero, Rat(98, 10))
    /\ initialized = TRUE
    /\ canvas = [width |-> 200, height |-> 200]
    /\ drawn = <<>>
    /\ pending = 1
    /\ now = StartTime
    /\ dt = Zero
    /\ frames = 0
    /\ calls = 0
    /\ call = [op |-> "pair", args |-> <<>>]
    /\ pre = <<>>
    /\ page = LoadedPage
    /\ ticks = <<>>

SpecTriples == InitTriples /\ [][NextCollide]_vars

\* the unordered pairs of n bodies, each once, as <<i, j>> with i < j
Pairs(n) == {p \in (1..n) \X (1..n) : p[1] < p[2]}
\* the place of the pair p in lexicographic order
PairRank(p, n) ==
    Cardinality({q \in Pairs(n) : q[1] < p[1] \/ (q[1] = p[1] /\ q[2] < p[2])}) + 1
LexPairs(n) ==
    [k \in 1..Cardinality(Pairs(n)) |-> CHOOSE p \in Pairs(n) : PairRank(p, n) = k]

\* the pairs of order resolved one after the other, each on the bodies as the
\* pairs before it left them
RECURSIVE ResolveInOrder(_, _)
ResolveInOrder(objs, order) ==
    IF order = <<>> THEN objs
    ELSE ResolveInOrder(CollidePair(objs, order[1][1], order[1][2]), Tail(order))

\* C25: the collision pass resolves every unordered pair of bodies once, in
\* lexicographic order of (i, j), i < j, over the insertion order, each pair
\* on the positions and velocities the pairs before it have left.
C25_PairsInLexOrder ==
    Resolved => objects = ResolveInOrder(pre, LexPairs(Len(pre)))

\* three circles that all overlapped: the pair (1, 3) was resolved on a first
\* circle that the pair (1, 2) had changed, with another result than on the
\* circles as they were, and the pass in the opposite order ends elsewhere
C25_Witness ==
    /\ Resolved
    /\ Len(pre) = 3
    /\ \A p \in Pairs(3) : Overlapping(pre[p[1]], pre[p[2]])
    /\ CollidePair(pre, 1, 2)[1] # pre[1]
    /\ handleCircleToCircleCollision(CollidePair(pre, 1, 2)[1], pre[3]) #
           handleCircleToCircleCollision(pre[1], pre[3])
    /\ objects # ResolveInOrder(pre, <<<<2, 3>>, <<1, 3>>, <<1, 2>>>>)
    /\ objects # pre


(***************************************************************************)
(* The arena, checked under Spec                                           *)
(***************************************************************************)
\* the arena is at least as large as the body b, and b lies inside it; b is a
\* body or the descriptor drawn of one
ArenaHolds(b) ==
    /\ RLe(RMul(Num(2), ExtentX(b)), Num(canvas.width))
    /\ RLe(RMul(Num(2), ExtentY(b)), Num(canvas.height))
InsideArena(b) ==
    /\ RLe(ExtentX(b), b.position.x)
    /\ RLe(RAdd(b.position.x, ExtentX(b)), Num(canvas.width))
    /\ RLe(ExtentY(b), b.position.y)
    /\ RLe(RAdd(b.position.y, ExtentY(b)), Num(canvas.height))
\* the last collision pass has moved body i from where it was drawn
Displaced(i) == objects[i].position # drawn[i].position

\* C26 as stated: at the end of every update that ran while Running, every
\* body that the arena is large enough for lies inside the arena.
C26_AlwaysInsideArena ==
    call.op = "update" =>
        \A i \in Bodies : ArenaHolds(objects[i]) => InsideArena(objects[i])

\* C26, amended: every body that the arena is large enough for lies inside
\* the arena when boundary resolution is done with it, where it is drawn; at
\* the end of the update this still holds for every box and for every circle
\* that the collision pass, which runs after boundary resolution, has not
\* displaced.
C26_InsideUnlessDisplaced ==
    call.op = "update" =>
        \A i \in Bodies :
            ArenaHolds(objects[i]) =>
                /\ InsideArena(drawn[i])
                /\ objects[i].kind = "box" => InsideArena(objects[i])
                /\ ~Displaced(i) => InsideArena(objects[i])

\* a box clamped into the corner of the arena and a circle that the collision
\* pass has pushed through the bottom wall after it was clamped
C26_Witness ==
    /\ call.op = "update"
    /\ \E i, j \in Bodies :
          /\ objects[i].kind = "box"
          /\ pre[i].position.x = Num(190)
          /\ RAdd(objects[i].position.x, ExtentX(objects[i])) = Num(canvas.width)
          /\ InsideArena(objects[i])
          /\ objects[j].kind = "circle"
          /\ ArenaHolds(objects[j])
          /\ RAdd(drawn[j].position.y, ExtentY(drawn[j])) = Num(canvas.height)
          /\ Displaced(j)
          /\ ~InsideArena(objects[j])


(***************************************************************************)
(* Further properties of boundary resolution, checked under SpecWalls      *)
(***************************************************************************)
\* the body b is clamped against that wall and not against the opposite one
OnlyBottom(b) == HitsBottom(b) /\ ~HitsTop(b)
OnlyTop(b) == HitsTop(b) /\ ~HitsBottom(b)
OnlyRight(b) == HitsRight(b) /\ ~HitsLeft(b)
OnlyLeft(b) == HitsLeft(b) /\ ~HitsRight(b)

\* C27 as stated: a body that boundary resolution has clamped against a wall
\* leaves it with a velocity that does not point into that wall, whatever
\* velocity it had when it was found across the wall.
C27_NeverIntoWall ==
    Bounded =>
        LET b == pre[1]
            a == objects[1]
        IN  /\ OnlyBottom(b) => RLe(a.velocity.y, Zero)
            /\ OnlyTop(b) => RLe(Zero, a.velocity.y)
            /\ OnlyRight(b) => RLe(a.velocity.x, Zero)
            /\ OnlyLeft(b) => RLe(Zero, a.velocity.x)

\* C27, amended: a body clamped against a wall, and not against the opposite
\* wall, leaves boundary resolution with a velocity that does not point into
\* that wall if it was found moving into the wall or not moving across it;
\* the normal component is negated whatever its sign, so a body found across
\* a wall while moving away from it leaves with a velocity that points into
\* the wall, unless its elasticity is 0.
C27_NotIntoWallIfMovingIntoIt ==
    Bounded =>
        LET b == pre[1]
            a == objects[1]
            bouncy == RLt(Zero, b.elasticity)
        IN  /\ (OnlyBottom(b) /\ RLe(Zero, b.velocity.y)) => RLe(a.velocity.y, Zero)
            /\ (OnlyTop(b) /\ RLe(b.velocity.y, Zero)) => RLe(Zero, a.velocity.y)
            /\ (OnlyRight(b) /\ RLe(Zero, b.velocity.x)) => RLe(a.velocity.x, Zero)
            /\ (OnlyLeft(b) /\ RLe(b.velocity.x, Zero)) => RLe(Zero, a.velocity.x)
            /\ (OnlyBottom(b) /\ RLt(b.velocity.y, Zero) /\ bouncy)
                   => RLt(Zero, a.velocity.y)
            /\ (OnlyTop(b) /\ RLt(Zero, b.velocity.y) /\ bouncy)
                   => RLt(a.velocity.y, Zero)
            /\ (OnlyRight(b) /\ RLt(b.velocity.x, Zero) /\ bouncy)
                   => RLt(Zero, a.velocity.x)
            /\ (OnlyLeft(b) /\ RLt(Zero, b.velocity.x) /\ bouncy)
                   => RLt(a.velocity.x, Zero)

\* a body found in the bottom right corner while moving down and to the
\* right: it leaves moving up and to the left
C27_Witness ==
    /\ Bounded
    /\ OnlyBottom(pre[1]) /\ OnlyRight(pre[1])
    /\ RLt(Zero, pre[1].velocity.x) /\ RLt(Zero, pre[1].velocity.y)
    /\ pre[1].elasticity = Rat(7, 10)
    /\ objects[1].position # pre[1].position
    /\ RLt(objects[1].velocity.x, Zero) /\ RLt(objects[1].velocity.y, Zero)


(***************************************************************************)
(* Further properties of the page, checked under SpecPage                  *)
(***************************************************************************)
\* the worlds that have run initialize: each has its click listener on the
\* canvas and its chain of update callbacks with the frame scheduler
LiveWorlds == {i \in Worlds : page.worlds[i].initialized /\ page.worlds[i].requests > 0}

\* C28: once the page has finished its initialization, the retry included,
\* at most one PhysicsWorld is live: a first attempt that fails after its
\* world was constructed and started leaves no live world beside the one of
\* the retry.
C28_SingleLiveWorld ==
    (page.attempts >= 1 /\ page.timers = <<>>) => Cardinality(LiveWorlds) <= 1


(***************************************************************************)
(* The tick loop: SpecLive is SpecToggle with a display that keeps         *)
(* refreshing: a frame is fired whenever a callback is pending, as long as *)
(* the bounds of the model leave a frame to fire                           *)
(***************************************************************************)
\* the bounds leave a frame to fire
FrameLeft == frames < MaxFrames /\ Precise(objects)

\* a display refresh that finds a callback pending; the steps of NextToggle
\* that count a frame are the steps of AnimationFrame
DisplayRefresh == pending > 0 /\ FrameLeft /\ frames' = frames + 1

SpecLive ==
    /\ InitToggle
    /\ [][NextToggle]_vars
    /\ WF_frames(DisplayRefresh)

\* C29: the tick loop of an initialized world never dies: after every
\* callback, Running or Paused, a callback is pending; and from the
\* construction and from every resume, while the display has a frame left
\* to fire, an update that advances the bodies runs unless the world is
\* paused first.
C29_TickLoopNeverDies ==
    /\ [](initialized => pending >= 1)
    /\ (running /\ call.op # "update" /\ FrameLeft)
           ~> ((call.op = "update" /\ objects # pre) \/ ~running)

\* paused before it ever ran, resumed after a frame, paused and resumed
\* again: the world runs an update that moves its body
C29_Witness ==
    /\ calls >= 2
    /\ running
    /\ call.op = "update"
    /\ objects # pre
    /\ frames > Len(ticks)
    /\ ticks[Len(ticks)].timestamp = now
    /\ pending >= 1


(***************************************************************************)
(* Spawns after a global set, checked under Spec                           *)
(***************************************************************************)
\* C30: the world does not keep the global elasticity and friction: a body
\* spawned after setGlobalElasticity(e) or setGlobalFriction(f) has the
\* elasticity 0.7 and the friction 0.1 of the constructors and is at rest,
\* and the bodies already there keep the values they had, so the bodies of
\* one world can differ in elasticity and friction.
C30_SpawnTakesDefaults ==
    call.op \in {"addCircle", "addBox"} =>
        /\ AppendedOne
        /\ Spawned.elasticity = Rat(7, 10)
        /\ Spawned.friction = Rat(1, 10)
        /\ Spawned.velocity = ZeroVector
        /\ Spawned.acceleration = ZeroVector
        /\ Spawned.position = Vector2D(call.args[1], call.args[2])

\* a circle spawned behind a body whose elasticity a global set has made 1
C30_Witness ==
    /\ call.op = "addCircle"
    /\ Len(objects) >= 2
    /\ objects[1].elasticity = One
    /\ Spawned.elasticity = Rat(7, 10)
    /\ Spawned.elasticity # objects[1].elasticity

====
